---------------------------- MODULE Spec2Model ----------------------------
(***************************************************************************)
(* Notification service: the submission endpoint (main.py), the store      *)
(* (crud.py, models.py) and the Celery task send_notification_task         *)
(* (tasks.py) with the retry behaviour its decorator configures.           *)
(*                                                                         *)
(* A worker executes the task body from one store access to the next:     *)
(* taking a message and calling its sender is one step, and so is every    *)
(* status write, each with the exception handling that follows it up to    *)
(* the next write, so executions of different workers interleave there.    *)
(* A status write either commits or raises (store unreachable) and then    *)
(* changes nothing.  Countdowns are recorded on the published message; an  *)
(* item may be received at any later moment.  The broker is taken to       *)
(* accept every publish made by a worker; a publish made by the endpoint   *)
(* may fail (main.py catches that).  The handler for kombu's               *)
(* OperationalError (tasks.py 169-171) is not modelled: nothing called     *)
(* inside the task's try block raises that class.                          *)
(*                                                                         *)
(* Spec is the endpoint and the workers; SpecFair adds fairness to it;     *)
(* SpecDirect feeds the task with messages of an unknown type; SpecSubmit  *)
(* takes the endpoint step by step, with the requests it refuses;          *)
(* SpecStatus and SpecList apply the functions of crud.py on their own;    *)
(* SpecPair is several workers on messages of different notifications.     *)
(***************************************************************************)
EXTENDS Naturals, Integers, Sequences, FiniteSets, Bags, TLC

VARIABLES
    notifications,  \* the notifications table: id (1..Len) -> row
    queue,          \* bag of task messages held by the broker
    worker,         \* worker -> position in send_notification_task and its request
    api,            \* the POST /notifications handler in flight
    attempts,       \* history: id -> sequence of sender results, "ok" or "failed"
    storeFaults,    \* history: id -> number of status writes that raised
    direct,         \* history: ids of the rows other producers published a message for
    submissions,    \* history: id -> how the submission that stored the row ended
    ret             \* the last call of a crud.py function made on its own, with its result

vars == <<notifications, queue, worker, api, attempts, storeFaults, direct,
          submissions, ret>>

-----------------------------------------------------------------------------
(* Bounds of the model *)
MaxNotifications == 1
NumWorkers == 1
MaxFaults == 4

(* config.py *)
TASK_RETRY_MAX_RETRIES == 3
TASK_RETRY_DEFAULT_DELAY == 60

Workers == 1..NumWorkers

(* models.py *)
NotificationType == {"email", "sms", "in-app"}
NotificationStatus == {"pending", "sent", "failed", "delivered", "seen"}

(* recipient_address is Optional[str]: a value or None *)
Addresses == {"addr", "None"}

(* schemas.py: the fields of a request body besides type and address *)
UserIds == {1, 2}

\* the user of the submissions where the user makes no difference
OneUser == CHOOSE user_id \in UserIds : TRUE
Messages == {"", "hi"}

\* line 10: message is constr(min_length=1)
ValidMessage_any(message) == TRUE

ValidMessage(message) == Len(message) >= 1

NoRow ==
    [id |-> 0, user_id |-> 0, type |-> "none", message |-> "", status |-> "none",
     recipient_address |-> "None", created_at |-> 0]

NoItem ==
    [notification_id |-> 0, notification_type |-> "none", user_id |-> 0,
     message |-> "", recipient_address |-> "None", retries |-> 0, countdown |-> 0]

Ids == 1..Len(notifications)

Failed(id) == Cardinality({i \in 1..Len(attempts[id]) : attempts[id][i] # "ok"})

RECURSIVE FaultsTo(_)
FaultsTo(n) == IF n = 0 THEN 0 ELSE Failed(n) + storeFaults[n] + FaultsTo(n - 1)

(* sender calls that failed and status writes that raised, so far *)
Faults == FaultsTo(Len(notifications))

(* the environment may fail once more *)
MayFail == Faults < MaxFaults

-----------------------------------------------------------------------------
(* crud.py *)

\* lines 6-21: id is the autoincrement key and created_at the server's now();
\* rows are inserted one after the other, so both grow with every insert
create_notification(table, user_id, type, message, address) ==
    Append(table, [id |-> Len(table) + 1, user_id |-> user_id, type |-> type,
                   message |-> message, status |-> "pending",
                   recipient_address |-> address, created_at |-> Len(table) + 1])

\* lines 23-27: the row with that id, or None
get_notification_by_id(table, id) ==
    LET found == {i \in 1..Len(table) : table[i].id = id}
    IN IF found = {} THEN NoRow ELSE table[CHOOSE i \in found : TRUE]

\* lines 35-44 as a guarded transition: only a pending row is written
update_notification_status_guarded(table, id, status) ==
    IF id \in 1..Len(table) /\ table[id].status = "pending"
    THEN [table EXCEPT ![id].status = status]
    ELSE table

\* lines 35-44 with a second sent taken as the receipt of the delivery
update_notification_status_promote(table, id, status) ==
    IF id \in 1..Len(table)
    THEN [table EXCEPT ![id].status =
             IF @ = "sent" /\ status = "sent" THEN "delivered" ELSE status]
    ELSE table

update_notification_status(table, id, status) ==
    IF id \in 1..Len(table)
    THEN [table EXCEPT ![id].status = status]
    ELSE table

\* line 33, order_by(created_at.desc()), oldest first instead
OrderByCreatedAtDesc_asc(rows) ==
    LET RECURSIVE Sorted(_)
        Sorted(S) ==
            IF S = {} THEN <<>>
            ELSE LET r == CHOOSE x \in S : \A y \in S : y.created_at >= x.created_at
                 IN <<r>> \o Sorted(S \ {r})
    IN Sorted(rows)

\* line 33, order_by(created_at.desc()): the rows of a set, newest first
OrderByCreatedAtDesc(rows) ==
    LET RECURSIVE Sorted(_)
        Sorted(S) ==
            IF S = {} THEN <<>>
            ELSE LET r == CHOOSE x \in S : \A y \in S : y.created_at <= x.created_at
                 IN <<r>> \o Sorted(S \ {r})
    IN Sorted(rows)

\* line 33, offset(skip)
Offset(seq, skip) == SubSeq(seq, skip + 1, Len(seq))

\* line 33, limit(limit)
Limit(seq, limit) == SubSeq(seq, 1, IF limit < Len(seq) THEN limit ELSE Len(seq))

\* lines 29-33
get_notifications_by_user_id(table, user_id, skip, limit) ==
    LET matching == {table[i] : i \in {j \in 1..Len(table) : table[j].user_id = user_id}}
    IN Limit(Offset(OrderByCreatedAtDesc(matching), skip), limit)

-----------------------------------------------------------------------------
(* tasks.py: retry policy *)

\* the test of line 188 taken one retry early
RetriesExhausted_early(retries) == retries + 1 >= TASK_RETRY_MAX_RETRIES

\* line 188: the task's own exhaustion test
RetriesExhausted(retries) == retries >= TASK_RETRY_MAX_RETRIES

\* Task.retry as configured by max_retries (line 115): it publishes the
\* retry unless retries + 1 exceeds max_retries, and then raises exc instead
MaxRetriesExceeded(retries) == retries + 1 > TASK_RETRY_MAX_RETRIES

\* lines 175 and 192: countdown passed to self.retry
LinearCountdown(retries) == TASK_RETRY_DEFAULT_DELAY * (retries + 1)

\* line 116: countdown of a retry made without one (autoretry_for)
DefaultCountdown(retries) == TASK_RETRY_DEFAULT_DELAY

\* the message Task.retry publishes for the current request
RetryItem(item, countdown) ==
    [item EXCEPT !.retries = item.retries + 1, !.countdown = countdown]

Publish(q, item) == q (+) SetToBag({item})

\* what the sender selected by lines 134-149 can do with the request
SenderOutcomes(type, address) ==
    CASE type = "email" ->
            IF address = "None" THEN {"smtp_error", "error"}
            ELSE {"ok", "smtp_error", "error"}
      [] type = "sms" ->
            IF address = "None" THEN {"error"} ELSE {"ok", "error"}
      [] type = "in-app" -> {"ok"}
      [] OTHER -> {}

IdleWorker == [pc |-> "idle", item |-> NoItem, success |-> FALSE, exc |-> "none"]

\* the wrapper autoretry_for (line 117) puts around the task body: an exception
\* other than Retry that leaves the body is retried with the default countdown
AutoRetry(q, item) ==
    IF MaxRetriesExceeded(item.retries) THEN q
    ELSE Publish(q, RetryItem(item, DefaultCountdown(item.retries)))

-----------------------------------------------------------------------------
(* main.py: POST /notifications *)

NoResponse == [status_code |-> 0, detail |-> "none", body |-> NoRow]

\* lines 53 and 104: 202 with the row object the handler holds
Accepted(row) == [status_code |-> 202, detail |-> "none", body |-> row]

\* lines 98-101
EnqueueFailed ==
    [status_code |-> 500, detail |-> "created but failed to enqueue", body |-> NoRow]

\* line 69: an exception of crud.create_notification is not caught by the
\* handler, the framework answers for it
StorageFailed ==
    [status_code |-> 500, detail |-> "Internal Server Error", body |-> NoRow]

\* the request body does not pass schemas.NotificationCreate
ValidationFailed ==
    [status_code |-> 422, detail |-> "validation error", body |-> NoRow]

\* the handler has answered and holds no request
IdleApi(response) ==
    [pc |-> "idle", id |-> 0, db_notification |-> NoRow, response |-> response]

\* lines 76-82 without line 81: the address is left to its default, None
TaskArgs_noaddress(row) ==
    [notification_id |-> row.id, notification_type |-> row.type,
     user_id |-> row.user_id, message |-> row.message,
     recipient_address |-> "None", retries |-> 0, countdown |-> 0]

\* lines 76-82: the arguments of the task, taken from the handler's row object
TaskArgs(row) ==
    [notification_id |-> row.id, notification_type |-> row.type,
     user_id |-> row.user_id, message |-> row.message,
     recipient_address |-> row.recipient_address, retries |-> 0, countdown |-> 0]

NoCall == [op |-> "none"]

Init ==
    /\ notifications = <<>>
    /\ queue = EmptyBag
    /\ worker = [w \in Workers |-> IdleWorker]
    /\ api = IdleApi(NoResponse)
    /\ attempts = <<>>
    /\ storeFaults = <<>>
    /\ direct = {}
    /\ submissions = <<>>
    /\ ret = NoCall

\* lines 53-57: a body with an empty message does not reach the handler
ApiReject(message) ==
    /\ api.pc = "idle"
    /\ ~ValidMessage(message)
    /\ api' = IdleApi(ValidationFailed)
    /\ UNCHANGED <<notifications, queue, worker, attempts, storeFaults, direct,
                   submissions, ret>>

\* line 69: the row is stored, status pending; db_notification is the row as
\* db.refresh loaded it (crud.py line 20)
ApiCreate(user_id, type, message, address) ==
    /\ api.pc = "idle"
    /\ ValidMessage(message)
    /\ Len(notifications) < MaxNotifications
    /\ notifications' = create_notification(notifications, user_id, type, message, address)
    /\ api' = [pc |-> "enqueue", id |-> Len(notifications) + 1,
               db_notification |-> notifications'[Len(notifications) + 1],
               response |-> NoResponse]
    /\ attempts' = Append(attempts, <<>>)
    /\ storeFaults' = Append(storeFaults, 0)
    /\ submissions' = Append(submissions, [outcome |-> "in_flight", stored |-> "none"])
    /\ UNCHANGED <<queue, worker, direct, ret>>

\* line 69, the commit of crud.py line 19 raises: nothing is stored
ApiCreateFails ==
    /\ api.pc = "idle"
    /\ api' = IdleApi(StorageFailed)
    /\ UNCHANGED <<notifications, queue, worker, attempts, storeFaults, direct,
                   submissions, ret>>

\* line 104 with the row read from the store again
ApiReturn_reread ==
    /\ api.pc = "return"
    /\ api' = IdleApi(Accepted(notifications[api.id]))
    /\ submissions' = [submissions EXCEPT ![api.id] =
           [outcome |-> "accepted", stored |-> notifications[api.id].status]]
    /\ UNCHANGED <<notifications, queue, worker, attempts, storeFaults, direct, ret>>

\* line 104: the handler returns its row object; stored is what the store
\* holds for the row at that moment
ApiReturn ==
    /\ api.pc = "return"
    /\ api' = IdleApi(Accepted(api.db_notification))
    /\ submissions' = [submissions EXCEPT ![api.id] =
           [outcome |-> "accepted", stored |-> notifications[api.id].status]]
    /\ UNCHANGED <<notifications, queue, worker, attempts, storeFaults, direct, ret>>

\* lines 76-87: the task message is published
ApiPublish ==
    /\ api.pc = "enqueue"
    /\ queue' = Publish(queue, TaskArgs(api.db_notification))
    /\ api' = [api EXCEPT !.pc = "return"]
    /\ UNCHANGED <<notifications, worker, attempts, storeFaults, direct,
                   submissions, ret>>

\* lines 76-87 and 104 as one step: the task message is published, the row is
\* returned
ApiEnqueue ==
    /\ api.pc = "enqueue"
    /\ queue' = Publish(queue, TaskArgs(api.db_notification))
    /\ api' = IdleApi(Accepted(api.db_notification))
    /\ submissions' = [submissions EXCEPT ![api.id] =
           [outcome |-> "accepted", stored |-> notifications[api.id].status]]
    /\ UNCHANGED <<notifications, worker, attempts, storeFaults, direct, ret>>

\* lines 88-101 with the status write line 97 gives as an example
ApiEnqueueFails_markfailed ==
    /\ api.pc = "enqueue"
    /\ notifications' = update_notification_status(notifications, api.id, "failed")
    /\ api' = IdleApi(EnqueueFailed)
    /\ submissions' = [submissions EXCEPT ![api.id] =
           [outcome |-> "not_enqueued", stored |-> "failed"]]
    /\ UNCHANGED <<queue, worker, attempts, storeFaults, direct, ret>>

\* lines 88-101 made atomic with the insert (line 96): the row is taken back
ApiEnqueueFails_rollback ==
    /\ api.pc = "enqueue"
    /\ notifications' = SubSeq(notifications, 1, api.id - 1)
    /\ attempts' = SubSeq(attempts, 1, api.id - 1)
    /\ storeFaults' = SubSeq(storeFaults, 1, api.id - 1)
    /\ api' = IdleApi(EnqueueFailed)
    /\ submissions' = [submissions EXCEPT ![api.id] =
           [outcome |-> "not_enqueued", stored |-> "none"]]
    /\ UNCHANGED <<queue, worker, direct, ret>>

\* lines 88-101: delay() raises, the handler answers 500 and the row stays
ApiEnqueueFails ==
    /\ api.pc = "enqueue"
    /\ api' = IdleApi(EnqueueFailed)
    /\ submissions' = [submissions EXCEPT ![api.id] =
           [outcome |-> "not_enqueued", stored |-> notifications[api.id].status]]
    /\ UNCHANGED <<notifications, queue, worker, attempts, storeFaults, direct, ret>>

-----------------------------------------------------------------------------
(* tasks.py: send_notification_task, one worker w *)

Goto(w, pc) == [worker EXCEPT ![w].pc = pc]

Raise(w, pc, exc) == [worker EXCEPT ![w].pc = pc, ![w].exc = exc]

\* finally: db.close(), the request is over
Finish(w) == [worker EXCEPT ![w] = IdleWorker]

\* a status write that takes the row from state the workers share (the row
\* stored last) instead of the request's own notification_id
Commit_shared(w, status) ==
    /\ notifications' = update_notification_status(notifications, Len(notifications), status)
    /\ UNCHANGED storeFaults

\* a status write of the task that commits
Commit(w, status) ==
    LET id == worker[w].item.notification_id
    IN /\ notifications' = update_notification_status(notifications, id, status)
       /\ UNCHANGED storeFaults

\* a status write of the task that raises: nothing is stored
StoreRaises(w) ==
    LET id == worker[w].item.notification_id
    IN /\ MayFail
       /\ id \in 1..Len(storeFaults)
       /\ storeFaults' = [storeFaults EXCEPT ![id] = @ + 1]
       /\ UNCHANGED notifications

\* lines 172-175: self.retry with the linear countdown; when the retries are
\* used up self.retry raises exc, which leaves the body and reaches autoretry.
\* req is the running request, q the queue it was taken from
ExceptSMTP(w, req, q) ==
    /\ queue' = IF MaxRetriesExceeded(req.item.retries)
                THEN AutoRetry(q, req.item)
                ELSE Publish(q, RetryItem(req.item, LinearCountdown(req.item.retries)))
    /\ worker' = Finish(w)

\* lines 180-192: either on to the FAILED write of line 189, or self.retry,
\* whose Retry (or exc, when the retries are used up) is caught at line 193
ExceptException(w, req, q) ==
    IF RetriesExhausted(req.item.retries)
    THEN /\ worker' = [worker EXCEPT ![w] =
                [req EXCEPT !.pc = "update_failed_exhausted", !.exc = "Exception"]]
         /\ queue' = q
    ELSE IF MaxRetriesExceeded(req.item.retries)
    THEN /\ worker' = [worker EXCEPT ![w] =
                [req EXCEPT !.pc = "update_failed_fallback", !.exc = "Exception"]]
         /\ queue' = q
    ELSE /\ worker' = [worker EXCEPT ![w] =
                [req EXCEPT !.pc = "update_failed_fallback", !.exc = "Retry"]]
         /\ queue' = Publish(q, RetryItem(req.item, LinearCountdown(req.item.retries)))

\* lines 129-149 and the handlers of what the sender raises: a worker takes a
\* message off the queue and calls the sender of its type
Dispatch(w) ==
    /\ worker[w].pc = "idle"
    /\ \E item \in BagToSet(queue) :
          LET q == queue (-) SetToBag({item})
              id == item.notification_id
              req == [pc |-> "dispatch", item |-> item, success |-> FALSE, exc |-> "none"]
          IN /\ item.notification_type \in NotificationType
             /\ \E outcome \in SenderOutcomes(item.notification_type,
                                              item.recipient_address) :
                   /\ outcome # "ok" => MayFail
                   /\ attempts' = [attempts EXCEPT ![id] =
                          Append(@, IF outcome = "ok" THEN "ok" ELSE "failed")]
                   /\ CASE outcome = "ok" ->
                             /\ worker' = [worker EXCEPT ![w] =
                                    [req EXCEPT !.pc = "update_sent", !.success = TRUE]]
                             /\ queue' = q
                        [] outcome = "smtp_error" -> ExceptSMTP(w, req, q)
                        [] OTHER -> ExceptException(w, req, q)
    /\ UNCHANGED <<notifications, api, storeFaults, direct, submissions, ret>>

\* lines 150-151: a message whose type is none of the three reaches the else
\* branch, no sender is called
DispatchUnknown(w) ==
    /\ worker[w].pc = "idle"
    /\ \E item \in BagToSet(queue) :
          /\ item.notification_type \notin NotificationType
          /\ queue' = queue (-) SetToBag({item})
          /\ worker' = [worker EXCEPT ![w] =
                 [pc |-> "update_failed_unknown", item |-> item,
                  success |-> FALSE, exc |-> "none"]]
    /\ UNCHANGED <<notifications, api, attempts, storeFaults, direct, submissions, ret>>

\* lines 153-154 without the write the comment of line 152 calls optional
UpdateFailedUnknown_nowrite(w) ==
    /\ worker[w].pc = "update_failed_unknown"
    /\ worker' = Finish(w)
    /\ UNCHANGED <<notifications, queue, api, attempts, storeFaults, direct, submissions, ret>>

\* lines 153-154: status FAILED, then return
UpdateFailedUnknown(w) ==
    /\ worker[w].pc = "update_failed_unknown"
    /\ \/ /\ Commit(w, "failed")
          /\ worker' = Finish(w)
          /\ UNCHANGED queue
       \/ /\ StoreRaises(w)
          /\ ExceptException(w, worker[w], queue)
    /\ UNCHANGED <<api, attempts, direct, submissions, ret>>

\* lines 156-161 with the two writes of an in-app notification made one
UpdateSent_collapsed(w) ==
    /\ worker[w].pc = "update_sent"
    /\ \/ /\ Commit(w, IF worker[w].item.notification_type = "in-app"
                        THEN "delivered" ELSE "sent")
          /\ worker' = Finish(w)
          /\ UNCHANGED queue
       \/ /\ StoreRaises(w)
          /\ ExceptException(w, worker[w], queue)
    /\ UNCHANGED <<api, attempts, direct, submissions, ret>>

\* lines 156-161 with DELIVERED written after SENT for every type
UpdateSent_alldelivered(w) ==
    /\ worker[w].pc = "update_sent"
    /\ \/ /\ Commit(w, "sent")
          /\ worker' = Goto(w, "update_delivered")
          /\ UNCHANGED queue
       \/ /\ StoreRaises(w)
          /\ ExceptException(w, worker[w], queue)
    /\ UNCHANGED <<api, attempts, direct, submissions, ret>>

\* lines 156-160: status SENT
UpdateSent(w) ==
    /\ worker[w].pc = "update_sent"
    /\ \/ /\ Commit(w, "sent")
          /\ worker' = IF worker[w].item.notification_type = "in-app"
                       THEN Goto(w, "update_delivered")
                       ELSE Finish(w)
          /\ UNCHANGED queue
       \/ /\ StoreRaises(w)
          /\ ExceptException(w, worker[w], queue)
    /\ UNCHANGED <<api, attempts, direct, submissions, ret>>

\* line 161: status DELIVERED for in-app
UpdateDelivered(w) ==
    /\ worker[w].pc = "update_delivered"
    /\ \/ /\ Commit(w, "delivered")
          /\ worker' = Finish(w)
          /\ UNCHANGED queue
       \/ /\ StoreRaises(w)
          /\ ExceptException(w, worker[w], queue)
    /\ UNCHANGED <<api, attempts, direct, submissions, ret>>

\* line 189: status FAILED when the retries are used up; the task then returns
UpdateFailedExhausted(w) ==
    /\ worker[w].pc = "update_failed_exhausted"
    /\ \/ /\ Commit(w, "failed")
          /\ worker' = Finish(w)
       \/ /\ StoreRaises(w)
          /\ worker' = Raise(w, "update_failed_fallback", "Exception")
    /\ UNCHANGED <<queue, api, attempts, direct, submissions, ret>>

\* lines 193-199 with the row put back to pending while its retry is queued
\* (line 164: "status remains PENDING or is updated to RETRYING")
UpdateFailedFallback_pending(w) ==
    /\ worker[w].pc = "update_failed_fallback"
    /\ \/ /\ Commit(w, IF worker[w].exc = "Retry" THEN "pending" ELSE "failed")
          /\ queue' = IF worker[w].exc = "Retry" THEN queue
                      ELSE AutoRetry(queue, worker[w].item)
       \/ /\ StoreRaises(w)
          /\ queue' = AutoRetry(queue, worker[w].item)
    /\ worker' = Finish(w)
    /\ UNCHANGED <<api, attempts, direct, submissions, ret>>

\* lines 193-199: status FAILED, then the caught exception is raised again; a
\* Retry passes through autoretry, anything else (also the exception of this
\* write) is retried by it
UpdateFailedFallback(w) ==
    /\ worker[w].pc = "update_failed_fallback"
    /\ \/ /\ Commit(w, "failed")
          /\ queue' = IF worker[w].exc = "Retry" THEN queue
                      ELSE AutoRetry(queue, worker[w].item)
       \/ /\ StoreRaises(w)
          /\ queue' = AutoRetry(queue, worker[w].item)
    /\ worker' = Finish(w)
    /\ UNCHANGED <<api, attempts, direct, submissions, ret>>

-----------------------------------------------------------------------------
Next ==
    \/ \E type \in NotificationType, message \in Messages, address \in Addresses :
          ApiCreate(OneUser, type, message, address)
    \/ ApiEnqueue
    \/ ApiEnqueueFails
    \/ \E w \in Workers : Dispatch(w)
    \/ \E w \in Workers : UpdateSent(w)
    \/ \E w \in Workers : UpdateDelivered(w)
    \/ \E w \in Workers : UpdateFailedExhausted(w)
    \/ \E w \in Workers : UpdateFailedFallback(w)

Spec == Init /\ [][Next]_vars

\* the steps of worker w
WorkerStep(w) ==
    \/ Dispatch(w)
    \/ UpdateSent(w)
    \/ UpdateDelivered(w)
    \/ UpdateFailedExhausted(w)
    \/ UpdateFailedFallback(w)

\* a fair queue and live workers: a worker that can take a step takes one,
\* and so a queued message is received; the endpoint answers its request
Fairness ==
    /\ \A w \in Workers : WF_vars(WorkerStep(w))
    /\ WF_vars(ApiEnqueue \/ ApiEnqueueFails)

SpecFair == Spec /\ Fairness

-----------------------------------------------------------------------------
(* The task is a public entry point of tasks.py (line 119): any producer    *)
(* can publish a message for it, with any string as notification_type.      *)
(* The endpoint never does: it copies the type from the stored row.         *)

MaxDirect == 1

\* a producer other than the endpoint publishes a message of a type the task
\* does not know, for a row of the table
PublishUnknown(id) ==
    /\ Cardinality(direct) < MaxDirect
    /\ id \notin direct
    /\ direct' = direct \cup {id}
    /\ queue' = Publish(queue,
           [notification_id |-> id, notification_type |-> "push",
            user_id |-> notifications[id].user_id,
            message |-> notifications[id].message,
            recipient_address |-> notifications[id].recipient_address,
            retries |-> 0, countdown |-> 0])
    /\ UNCHANGED <<notifications, worker, api, attempts, storeFaults, submissions, ret>>

\* the task fed with such messages only: the rows are stored by the endpoint,
\* whose own publish does not take place
NextDirect ==
    \/ \E type \in NotificationType, message \in Messages, address \in Addresses :
          ApiCreate(OneUser, type, message, address)
    \/ ApiEnqueueFails
    \/ \E id \in Ids : PublishUnknown(id)
    \/ \E w \in Workers : DispatchUnknown(w)
    \/ \E w \in Workers : UpdateFailedUnknown(w)
    \/ \E w \in Workers : UpdateFailedExhausted(w)
    \/ \E w \in Workers : UpdateFailedFallback(w)

SpecDirect == Init /\ [][NextDirect]_vars

-----------------------------------------------------------------------------
(* The endpoint observed step by step: the publish of line 85 and the       *)
(* return of line 104 are steps of their own, so that a worker can process  *)
(* the message in between, and requests that store nothing are answered     *)
(* too.  The environment fails at most MaxSubmitFaults times here; the      *)
(* FAILED write of line 189 needs four failures and is not among the steps. *)

MaxSubmitFaults == 1

FewFaults == Faults <= MaxSubmitFaults

NextSubmit ==
    \/ \E message \in Messages : ApiReject(message)
    \/ \E type \in NotificationType, message \in Messages, address \in Addresses :
          ApiCreate(OneUser, type, message, address)
    \/ ApiCreateFails
    \/ ApiPublish
    \/ ApiEnqueueFails
    \/ ApiReturn
    \/ \E w \in Workers : Dispatch(w) /\ FewFaults'
    \/ \E w \in Workers : UpdateSent(w) /\ FewFaults'
    \/ \E w \in Workers : UpdateDelivered(w) /\ FewFaults'
    \/ \E w \in Workers : UpdateFailedFallback(w) /\ FewFaults'

SpecSubmit == Init /\ [][NextSubmit]_vars

-----------------------------------------------------------------------------
(* Several workers on the messages of several notifications: NumPairRows    *)
(* submissions have been accepted, their rows are stored and their messages *)
(* queued, and NumPairWorkers workers process them in any interleaving,     *)
(* each notification being with one worker at a time (a retry is delayed    *)
(* by its countdown and received after the failed request is over).         *)
(* The environment fails at most MaxPairFaults times here, so the FAILED    *)
(* write of line 189, which needs four failures, is not among the steps.    *)

NumPairRows == 2
NumPairWorkers == 2
MaxPairFaults == 1

PairWorkers == 1..NumPairWorkers

\* the tables n accepted submissions leave; each gives an address, with which
\* a sender can do all it can do without one (SenderOutcomes) and succeed too
RECURSIVE Tables(_)
Tables(n) ==
    IF n = 0 THEN {<<>>}
    ELSE {create_notification(table, OneUser, type, "hi", "addr") :
             table \in Tables(n - 1), type \in NotificationType}

InitPair ==
    /\ notifications \in Tables(NumPairRows)
    /\ queue = SetToBag({TaskArgs(notifications[id]) : id \in 1..NumPairRows})
    /\ worker = [w \in PairWorkers |-> IdleWorker]
    /\ api = IdleApi(Accepted(notifications[NumPairRows]))
    /\ attempts = [id \in 1..NumPairRows |-> <<>>]
    /\ storeFaults = [id \in 1..NumPairRows |-> 0]
    /\ direct = {}
    /\ submissions = [id \in 1..NumPairRows |->
                         [outcome |-> "accepted", stored |-> "pending"]]
    /\ ret = NoCall

PairFaults == Faults <= MaxPairFaults

\* the message received is of a notification no worker is processing
OneWorkerEach ==
    \A id \in Ids :
        attempts'[id] # attempts[id] =>
            \A w \in PairWorkers :
                ~(worker[w].pc # "idle" /\ worker[w].item.notification_id = id)

NextPair ==
    \/ \E w \in PairWorkers : Dispatch(w) /\ PairFaults' /\ OneWorkerEach
    \/ \E w \in PairWorkers : UpdateSent(w) /\ PairFaults'
    \/ \E w \in PairWorkers : UpdateDelivered(w) /\ PairFaults'
    \/ \E w \in PairWorkers : UpdateFailedFallback(w) /\ PairFaults'

SpecPair == InitPair /\ [][NextPair]_vars

-----------------------------------------------------------------------------
(* crud.py called on its own: the functions of the store applied to tables  *)
(* of up to MaxRows rows, with any arguments.                               *)

MaxRows == 3

\* skip and limit of a listing
Pages == 0..MaxRows

\* ids asked for; the last ones are missing while the table is not full
RowIds == 1..MaxRows

\* crud.create_notification for a request of user_id
CreateNotification(user_id) ==
    /\ Len(notifications) < MaxRows
    /\ notifications' = create_notification(notifications, user_id, "email", "hi", "addr")
    /\ attempts' = Append(attempts, <<>>)
    /\ storeFaults' = Append(storeFaults, 0)
    /\ ret' = [op |-> "create_notification", value |-> notifications'[Len(notifications')]]
    /\ UNCHANGED <<queue, worker, api, direct, submissions>>

\* crud.update_notification_status(id, status); previous is the status the row
\* had, again says that the call before was this same call
UpdateStatus(id, status) ==
    /\ notifications' = update_notification_status(notifications, id, status)
    /\ ret' = [op |-> "update_notification_status", id |-> id, status |-> status,
               value |-> get_notification_by_id(notifications', id),
               previous |-> get_notification_by_id(notifications, id).status,
               again |-> /\ ret.op = "update_notification_status"
                         /\ ret.id = id
                         /\ ret.status = status]
    /\ UNCHANGED <<queue, worker, api, attempts, storeFaults, direct, submissions>>

\* main.py lines 107-127: GET /users/{user_id}/notifications
GetUserNotifications(user_id, skip, limit) ==
    /\ ret' = [op |-> "get_notifications_by_user_id", user_id |-> user_id,
               skip |-> skip, limit |-> limit,
               value |-> get_notifications_by_user_id(notifications, user_id, skip, limit)]
    /\ UNCHANGED <<notifications, queue, worker, api, attempts, storeFaults, direct,
                   submissions>>

NextStatus ==
    \/ CreateNotification(OneUser)
    \/ \E id \in RowIds, status \in NotificationStatus : UpdateStatus(id, status)

SpecStatus == Init /\ [][NextStatus]_vars

NextList ==
    \/ \E user_id \in UserIds : CreateNotification(user_id)
    \/ \E user_id \in UserIds, skip \in Pages, limit \in Pages :
          GetUserNotifications(user_id, skip, limit)

SpecList == Init /\ [][NextList]_vars

TypeOK ==
    /\ Len(attempts) = Len(notifications)
    /\ Len(storeFaults) = Len(notifications)
    /\ Len(submissions) <= Len(notifications)
    /\ \A id \in Ids :
          notifications[id].id = id /\ ValidMessage(notifications[id].message)
    /\ api.pc \in {"idle", "enqueue", "return"}
    /\ \A id \in Ids : notifications[id].status \in NotificationStatus
    /\ \A w \in Workers : worker[w].item.retries \in 0..TASK_RETRY_MAX_RETRIES


-----------------------------------------------------------------------------
(* Vocabulary of the properties *)

Range(seq) == {seq[i] : i \in 1..Len(seq)}

Row(id) == notifications[id]

Items == BagToSet(queue)

InQueue(id) == \E item \in Items : item.notification_id = id

Busy(id) == \E w \in Workers :
    worker[w].pc # "idle" /\ worker[w].item.notification_id = id

\* nothing is left to do for the row: its message is published, and no
\* message of it is queued or being processed
Done(id) == ~InQueue(id) /\ ~Busy(id) /\ api.id # id

AllFailed(id) == attempts[id] # <<>> /\ Range(attempts[id]) = {"failed"}

NeedsAddress(id) == Row(id).type \in {"email", "sms"}

RECURSIVE SumCopies(_, _)
SumCopies(q, S) ==
    IF S = {} THEN 0
    ELSE LET x == CHOOSE y \in S : TRUE
         IN CopiesIn(x, q) + SumCopies(q, S \ {x})

\* number of queued messages of row id whose retry counter is r
Count(q, id, r) ==
    SumCopies(q, {i \in BagToSet(q) : i.notification_id = id /\ i.retries = r})

-----------------------------------------------------------------------------
(* C1: once the sender has succeeded for a notification, the sender is      *)
(* never invoked for that notification again (a status write that fails     *)
(* after the send must not lead to a second send).  The task does not       *)
(* keep this: a SENT write that raises lands in the generic handler, which  *)
(* retries the whole task.                                                  *)
C1_NoSendAfterSuccess ==
    [][\A id \in Ids : "ok" \in Range(attempts[id]) => attempts'[id] = attempts[id]]_vars

(* C2: for an email or sms notification whose sender has failed on every    *)
(* attempt, whatever the failure, once the retries are used up (nothing of  *)
(* it is queued or in process any more) the row's status is failed.  The    *)
(* task does not keep this for SMTP errors: the row stays pending.          *)
C2_FailedWhenExhausted ==
    \A id \in Ids :
        (NeedsAddress(id) /\ AllFailed(id) /\ Done(id)) => Row(id).status = "failed"

C4_PendingWhileRetrying ==
    \A id \in Ids :
        (AllFailed(id) /\ (InQueue(id) \/ Busy(id))) => Row(id).status = "pending"

(* C5: every change of a row's status is pending -> sent, pending ->        *)
(* failed, or sent -> delivered for an in-app row; failed, sent (email,     *)
(* sms) and delivered are final.                                            *)
C5_Transitions ==
    [][\A id \in Ids :
          Row(id)'.status # Row(id).status =>
              \/ Row(id).status = "pending" /\ Row(id)'.status \in {"sent", "failed"}
              \/ /\ Row(id).status = "sent"
                 /\ Row(id)'.status = "delivered"
                 /\ Row(id).type = "in-app"]_vars

(* C6: for an email or sms row without recipient address the sender is      *)
(* never called and no retry is ever queued.                                *)
C6_NoSendWithoutAddress ==
    \A id \in Ids :
        (NeedsAddress(id) /\ Row(id).recipient_address = "None") =>
            /\ attempts[id] = <<>>
            /\ \A item \in Items : item.notification_id = id => item.retries = 0

C8_LinearDelay ==
    \A item \in Items : item.retries > 0 => item.countdown = 60 * item.retries

(* C9: for an email or sms notification whose sender fails k <= 3 times     *)
(* and then succeeds, at the end the status is sent and the sender was      *)
(* called k + 1 times: the success is its last call.                        *)
C9_SentAfterKFailures ==
    \A id \in Ids :
        (NeedsAddress(id) /\ "ok" \in Range(attempts[id]) /\ Done(id)) =>
            /\ Row(id).status = "sent"
            /\ \E k \in 0..3 :
                  /\ Len(attempts[id]) = k + 1
                  /\ \A i \in 1..k : attempts[id][i] = "failed"
                  /\ attempts[id][k + 1] = "ok"

(* C10: the in-app sender never fails; for a notification whose sender      *)
(* did not fail and whose status writes were all accepted, the status       *)
(* changes only pending -> sent and, for in-app, sent -> delivered, as a    *)
(* write of its own (the row is sent while that write is due), and at the   *)
(* end it is delivered for in-app and sent for email and sms.               *)
C10_SuccessPath ==
    [][\A id \in Ids :
          /\ Row(id).type = "in-app" => "failed" \notin Range(attempts'[id])
          /\ (storeFaults'[id] = 0 /\ "failed" \notin Range(attempts'[id])) =>
                /\ Row(id)'.status # Row(id).status =>
                      \/ Row(id).status = "pending" /\ Row(id)'.status = "sent"
                      \/ /\ Row(id).status = "sent"
                         /\ Row(id)'.status = "delivered"
                         /\ Row(id).type = "in-app"
                /\ \A w \in Workers :
                      (worker'[w].pc = "update_delivered"
                          /\ worker'[w].item.notification_id = id)
                        => (Row(id).type = "in-app" /\ Row(id)'.status = "sent")
                /\ (attempts'[id] # <<>> /\ Done(id)') =>
                      Row(id)'.status =
                         IF Row(id).type = "in-app" THEN "delivered" ELSE "sent"]_vars

\* an in-app notification went through both writes
C10_Witness ==
    \E id \in Ids :
        /\ Row(id).type = "in-app"
        /\ Row(id).status = "delivered"
        /\ attempts[id] = <<"ok">>
        /\ storeFaults[id] = 0
        /\ Done(id)

(* C11: every successful submission stores a new row with status pending    *)
(* and returns a row whose status is pending, also when a worker has        *)
(* processed the message before the call returns.                           *)
C11_ReturnsPending ==
    [][/\ (api.pc = "idle" /\ api'.pc = "enqueue") =>
             /\ Len(notifications') = Len(notifications) + 1
             /\ notifications'[api'.id].status = "pending"
       /\ (api.pc = "return" /\ api'.pc = "idle") =>
             /\ api'.response.status_code = 202
             /\ api'.response.body.id = api.id
             /\ api.id \in Ids
             /\ api'.response.body.status = "pending"
       /\ api'.response.status_code = 202 => api'.response.body.status = "pending"]_vars

\* the call has returned a pending row the store held as sent, delivered or failed
C11_Witness ==
    \E id \in Ids :
        /\ submissions[id].outcome = "accepted"
        /\ submissions[id].stored # "pending"
        /\ api.response.status_code = 202
        /\ api.response.body.id = id
        /\ api.response.body.status = "pending"

(* C12: when the publish of the task message fails, the answer is an error  *)
(* (not the 202 of a success) that differs from the answer to a failed      *)
(* insert, the row stays in the table with status pending and no message    *)
(* exists for it: it is pending in every later state.                       *)
C12_EnqueueFailure ==
    [][/\ (api.pc = "enqueue" /\ api'.pc = "idle") =>
             /\ api'.response.status_code = 500
             /\ api'.response # StorageFailed
             /\ api.id \in 1..Len(notifications')
             /\ submissions'[api.id].outcome = "not_enqueued"
       /\ \A id \in Ids :
             submissions[id].outcome = "not_enqueued" =>
                /\ id \in 1..Len(notifications')
                /\ Row(id)'.status = "pending"
                /\ \A item \in Items' : item.notification_id # id
                /\ \A w \in Workers :
                      worker'[w].pc # "idle" => worker'[w].item.notification_id # id]_vars

\* the publish failed, and another request was answered afterwards
C12_Witness ==
    \E id \in Ids :
        /\ submissions[id].outcome = "not_enqueued"
        /\ Row(id).status = "pending"
        /\ api.pc = "idle"
        /\ api.response # EnqueueFailed

(* C13: a submission with an empty message is answered with a validation    *)
(* failure and changes nothing, no row is stored and no message published;  *)
(* no row of the table ever has an empty message.                           *)
C13_EmptyRejected ==
    [][/\ \A id \in 1..Len(notifications') : notifications'[id].message # ""
       /\ (api.pc = "idle" /\ api' # api /\ api'.response = ValidationFailed) =>
             /\ notifications' = notifications
             /\ queue' = queue
             /\ api'.pc = "idle"]_vars

\* a submission was rejected while the table holds a row
C13_Witness ==
    api.response = ValidationFailed /\ notifications # <<>>

(* C14: no status write sets a row back to pending: once the status of a    *)
(* row differs from pending it is never pending again.                      *)
C14_NeverBackToPending ==
    [][\A id \in Ids :
          Row(id).status # "pending" => Row(id)'.status # "pending"]_vars

\* one status write of an in-app row raised: the row was set to failed, the
\* retry wrote sent and delivered over it
C14_Witness ==
    \E id \in Ids :
        /\ Row(id).type = "in-app"
        /\ Row(id).status = "delivered"
        /\ storeFaults[id] = 1
        /\ Len(attempts[id]) = 2
        /\ Done(id)

(* C15: the number of rows equals the number of submissions that passed     *)
(* validation and were stored, those whose publish then failed included;    *)
(* sender calls, retries and status writes neither add nor remove a row.    *)
C15_OneRowPerSubmission ==
    [][/\ Len(notifications') = Len(submissions')
       /\ \A id \in Ids : id \in 1..Len(notifications') /\ notifications'[id].id = id
       /\ Len(notifications') # Len(notifications) =>
             /\ api.pc = "idle" /\ api'.pc = "enqueue"
             /\ Len(notifications') = Len(notifications) + 1
             /\ worker' = worker /\ queue' = queue]_vars

\* a row was processed with retries and failed status writes, and is the one row
C15_Witness ==
    \E id \in Ids :
        /\ Len(attempts[id]) >= 2
        /\ storeFaults[id] >= 1
        /\ Done(id)
        /\ Len(notifications) = Len(submissions)

(* C16: update_notification_status(id, s) on an existing row sets its       *)
(* status to s whatever the status was, and changes no other row and none   *)
(* of the row's id, user_id, type, message, recipient_address, created_at;  *)
(* on a missing id it returns None and leaves the table as it was.          *)
C16_Overwrite ==
    [][(ret'.op = "update_notification_status" /\ ret' # ret) =>
          LET id == ret'.id
          IN IF id \in Ids
             THEN /\ Len(notifications') = Len(notifications)
                  /\ notifications'[id] = [notifications[id] EXCEPT !.status = ret'.status]
                  /\ \A other \in Ids \ {id} : notifications'[other] = notifications[other]
                  /\ ret'.value = notifications'[id]
             ELSE /\ notifications' = notifications
                  /\ ret'.value = NoRow]_vars

\* a delivered row was written back to pending
C16_Witness ==
    /\ ret.op = "update_notification_status"
    /\ ret.previous = "delivered"
    /\ ret.status = "pending"
    /\ ret.id \in Ids
    /\ Row(ret.id).status = "pending"

(* C17: get_notifications_by_user_id(user_id, skip, limit) returns only     *)
(* rows of that user, newest first, and exactly the elements at positions   *)
(* skip .. skip+limit-1 of that order: the element at place i of the        *)
(* result is the user's row with skip+i-1 newer rows of the user; the       *)
(* result is empty when skip is past the end or the user has no rows.       *)
C17_ListByUser ==
    [][(ret'.op = "get_notifications_by_user_id" /\ ret' # ret) =>
          LET res == ret'.value
              mine == {id \in Ids : Row(id).user_id = ret'.user_id}
              n == Cardinality(mine)
              rest == IF ret'.skip >= n THEN 0 ELSE n - ret'.skip
          IN /\ Len(res) = IF ret'.limit < rest THEN ret'.limit ELSE rest
             /\ \A i \in 1..Len(res) :
                   /\ res[i].id \in mine
                   /\ res[i] = Row(res[i].id)
                   /\ Cardinality({id \in mine : Row(id).created_at > res[i].created_at})
                         = ret'.skip + i - 1]_vars

\* the second page of one row, of a user with two rows, among rows of another user
C17_Witness ==
    /\ ret.op = "get_notifications_by_user_id"
    /\ ret.skip = 1 /\ ret.limit = 1
    /\ Len(ret.value) = 1
    /\ \E id \in Ids :
          /\ Row(id).user_id = ret.user_id
          /\ Row(id).created_at > ret.value[1].created_at
    /\ \E id \in Ids :
          /\ Row(id).user_id # ret.user_id
          /\ Row(id).created_at < ret.value[1].created_at

(* C18: update_notification_status called twice in a row with the same      *)
(* status sent, delivered or failed for the same row leaves the row with    *)
(* that status, as the first call did.                                      *)
C18_Idempotent ==
    [][(/\ ret'.op = "update_notification_status"
        /\ ret'.again
        /\ ret'.status \in {"sent", "delivered", "failed"}
        /\ ret'.id \in Ids) =>
          /\ notifications'[ret'.id].status = ret'.status
          /\ notifications' = notifications]_vars

\* the second of two calls with sent for the same row
C18_Witness ==
    /\ ret.op = "update_notification_status"
    /\ ret.again
    /\ ret.status = "sent"
    /\ ret.id \in Ids
    /\ Row(ret.id).status = "sent"

(* C19: processing ends for every notification: under a fair queue, for any *)
(* pattern of failures, eventually no message of the notification is queued *)
(* or in process and its status is sent, delivered or failed.  Taken here   *)
(* for the notifications that have the address their type needs and whose   *)
(* status writes were all accepted: the row of an email whose sender raised *)
(* SMTP errors only stays pending for ever.                                 *)
C19_EndsInFinalStatus ==
    \A id \in 1..MaxNotifications :
        []((/\ id \in Ids
            /\ attempts[id] # <<>>
            /\ NeedsAddress(id) => Row(id).recipient_address # "None") =>
              <>(/\ id \in Ids
                 /\ Done(id)
                 /\ \/ Row(id).status \in {"sent", "delivered", "failed"}
                    \/ storeFaults[id] > 0))

\* the messages of row id that are outstanding: those queued (delayed ones
\* included) and those a worker is processing and has not yet replaced by
\* their retry
Outstanding(id) ==
    SumCopies(queue, {item \in Items : item.notification_id = id})
      + Cardinality({w \in Workers : /\ worker[w].pc # "idle"
                                     /\ worker[w].item.notification_id = id
                                     /\ worker[w].exc # "Retry"})

(* C20: at every moment at most one message per notification is             *)
(* outstanding (queued, delayed for its retry, or in process): one failed   *)
(* attempt schedules at most one retry, also when the status write of the   *)
(* failure handler fails after the retry was scheduled.  It does not: the   *)
(* exception of that write reaches autoretry_for, which schedules a second. *)
C20_OneOutstanding ==
    \A id \in Ids : Outstanding(id) <= 1

(* C21: the row is stored before its message is published: every message    *)
(* that is queued or in process names a row of the table, and its type,     *)
(* user_id, message and recipient_address are those of that row in every    *)
(* later state, retries included.                                           *)
C21_ItemMatchesRow ==
    /\ api.pc \in {"enqueue", "return"} => api.id \in Ids
    /\ \A item \in Items \cup {worker[w].item : w \in {v \in Workers : worker[v].pc # "idle"}} :
          /\ item.notification_id \in Ids
          /\ item.notification_type = Row(item.notification_id).type
          /\ item.user_id = Row(item.notification_id).user_id
          /\ item.message = Row(item.notification_id).message
          /\ item.recipient_address = Row(item.notification_id).recipient_address

\* a retry of the third degree is queued for a row that has been written
C21_Witness ==
    \E item \in Items :
        /\ item.retries = 3
        /\ item.recipient_address = "addr"
        /\ Row(item.notification_id).status = "failed"

(* C22: in every reachable state the status of each row is one of pending,  *)
(* sent, delivered, failed (seen, the fifth value of the enum, is never     *)
(* written), and a row is delivered only if its type is in-app.             *)
C22_StatusValues ==
    \A id \in Ids :
        /\ Row(id).status \in {"pending", "sent", "delivered", "failed"}
        /\ Row(id).status = "delivered" => Row(id).type = "in-app"

\* an in-app row is delivered after a retry, or an email or sms row is sent
\* after one
C22_Witness ==
    \E id \in Ids :
        /\ Len(attempts[id]) >= 2
        /\ Done(id)
        /\ Row(id).status = IF Row(id).type = "in-app" THEN "delivered" ELSE "sent"

\* worker w is processing a message of row id
Processing(w, id) == worker[w].pc # "idle" /\ worker[w].item.notification_id = id

\* the queued messages of row id, with their numbers
QueuedOf(q, id) ==
    [item \in {i \in BagToSet(q) : i.notification_id = id} |-> CopiesIn(item, q)]

(* C23: workers processing messages of different notifications do not       *)
(* interfere: a step of a worker changes the row, the sender calls, the     *)
(* failed writes and the queued messages of the notification its own        *)
(* message names and of no other, in every interleaving; so what happens    *)
(* to a notification is what happens when it is processed alone: with all   *)
(* its status writes accepted, it ends sent (delivered for in-app) when     *)
(* its last sender call succeeded and failed or pending when it did not.    *)
C23_NoInterference ==
    [][LET changed == {id \in Ids :
                          \/ notifications'[id] # notifications[id]
                          \/ attempts'[id] # attempts[id]
                          \/ storeFaults'[id] # storeFaults[id]
                          \/ QueuedOf(queue', id) # QueuedOf(queue, id)}
           moved == {w \in PairWorkers : worker'[w] # worker[w]}
       IN /\ Cardinality(changed) <= 1
          /\ Cardinality(moved) <= 1
          /\ \A w \in moved, id \in changed :
                \/ Processing(w, id)
                \/ worker'[w].pc # "idle" /\ worker'[w].item.notification_id = id
          /\ \A id \in Ids :
                (/\ storeFaults'[id] = 0
                 /\ attempts'[id] # <<>>
                 /\ QueuedOf(queue', id) = <<>>
                 /\ \A w \in PairWorkers :
                       worker'[w].pc # "idle" => worker'[w].item.notification_id # id)
                   => notifications'[id].status \in
                         IF attempts'[id][Len(attempts'[id])] = "ok"
                         THEN {IF notifications[id].type = "in-app"
                               THEN "delivered" ELSE "sent"}
                         ELSE {"failed", "pending"}]_vars

\* two workers are in the middle of two notifications at once: one has
\* written SENT and is to write DELIVERED, the other is to write FAILED
C23_Witness ==
    \E w1 \in PairWorkers, w2 \in PairWorkers :
        /\ worker[w1].pc = "update_delivered"
        /\ worker[w2].pc = "update_failed_fallback"
        /\ worker[w1].item.notification_id # worker[w2].item.notification_id
        /\ Row(worker[w1].item.notification_id).status = "sent"
        /\ Row(worker[w2].item.notification_id).status = "pending"

=============================================================================
